---- MODULE Spec2Model ----
(***************************************************************************)
(* A model of basismixer/performance_codec.py: load_bm_preds and           *)
(* _build_score_dict, with the numpy operations they use.                  *)
(*                                                                         *)
(* Arithmetic.  numpy computes in IEEE binary64.  The model computes in    *)
(* exact arithmetic over the numbers a + b*sqrt(f) (a, b rational, f a     *)
(* squarefree integer), extended with the IEEE special values nan, inf and *)
(* -inf and their rules (0/0 = nan, x/0 = +-inf, nan ** 0 = 1, ...).       *)
(* Rounding and the sign of zero are not modelled.  np.int (line 45) is    *)
(* taken as the builtin int, as in the numpy releases that still have it.  *)
(***************************************************************************)
EXTENDS Integers, Sequences, FiniteSets, TLC

\* ------------------------------------------------------------- bounds
\* The largest number of rows in a predictions file.
MaxNotes == 3
\* Raw onsets are drawn from MinOnset..MaxOnset.
MaxOnset == 2
\* Raw expressive values are drawn from 0..MaxRaw.
MaxRaw == 2

\* ---------------------------------------------------------- rationals
RECURSIVE GCD(_, _)
GCD(m, n) == IF n = 0 THEN m ELSE GCD(n, m % n)

Abs(i) == IF i < 0 THEN -i ELSE i

\* The rational n/d (d # 0) in lowest terms with a positive denominator.
Rat(n, d) ==
    LET g == GCD(Abs(n), Abs(d))
        s == IF d < 0 THEN -1 ELSE 1
    IN  [n |-> s * (n \div g), d |-> s * (d \div g)]

RZero == [n |-> 0, d |-> 1]
ROne == [n |-> 1, d |-> 1]
RInt(i) == [n |-> i, d |-> 1]
RAdd(x, y) == Rat(x.n * y.d + y.n * x.d, x.d * y.d)
RNeg(x) == [n |-> -x.n, d |-> x.d]
RMul(x, y) == Rat(x.n * y.n, x.d * y.d)
RDiv(x, y) == Rat(x.n * y.d, x.d * y.n)
RLess(x, y) == x.n * y.d < y.n * x.d

RECURSIVE RPowNat(_, _)
RPowNat(x, e) == IF e = 0 THEN ROne ELSE RMul(x, RPowNat(x, e - 1))

\* ------------------------------------------------ float64 values (Num)
\* k = "fin": the number a + b*sqrt(f); b = 0 implies f = 1, and f > 1 is
\* squarefree.  k = "nan", "inf", "ninf": the IEEE special values.
Fin(a, b, f) ==
    IF b = RZero THEN [k |-> "fin", a |-> a, b |-> RZero, f |-> 1]
    ELSE IF f = 1 THEN [k |-> "fin", a |-> RAdd(a, b), b |-> RZero, f |-> 1]
    ELSE [k |-> "fin", a |-> a, b |-> b, f |-> f]

Special(kind) == [k |-> kind, a |-> RZero, b |-> RZero, f |-> 1]
NaN == Special("nan")
Inf == Special("inf")
NInf == Special("ninf")
Q(r) == Fin(r, RZero, 1)
I(i) == Q(RInt(i))
Zero == I(0)
One == I(1)

IsFinite(x) == x.k = "fin"

\* The sign of a nonzero finite number a + b*sqrt(f): -1, 0 or 1.
RSign(r) == IF r.n > 0 THEN 1 ELSE IF r.n < 0 THEN -1 ELSE 0
Sign(x) ==
    IF x.b = RZero THEN RSign(x.a)
    ELSE IF x.a = RZero THEN RSign(x.b)
    ELSE IF RSign(x.a) = RSign(x.b) THEN RSign(x.a)
    \* opposite signs: compare a^2 with b^2 * f
    ELSE IF RLess(RMul(RMul(x.b, x.b), RInt(x.f)), RMul(x.a, x.a))
         THEN RSign(x.a)
         ELSE RSign(x.b)

Neg(x) ==
    CASE x.k = "fin" -> Fin(RNeg(x.a), RNeg(x.b), x.f)
      [] x.k = "inf" -> NInf
      [] x.k = "ninf" -> Inf
      [] OTHER -> NaN

\* x + y.  Two irrational operands share their f (one column, one std).
Add(x, y) ==
    CASE x.k = "nan" \/ y.k = "nan" -> NaN
      [] x.k = "fin" /\ y.k = "fin" ->
            Fin(RAdd(x.a, y.a), RAdd(x.b, y.b), IF x.b = RZero THEN y.f ELSE x.f)
      [] x.k = "fin" -> y
      [] y.k = "fin" -> x
      [] x.k = y.k -> x
      [] OTHER -> NaN

Sub(x, y) == Add(x, Neg(y))

\* x * y for a rational y (a configuration option, a count).
Mul(x, y) ==
    CASE x.k = "nan" \/ y.k = "nan" -> NaN
      [] x.k = "fin" /\ y.k = "fin" -> Fin(RMul(x.a, y.a), RMul(x.b, y.a), x.f)
      [] x.k = "fin" ->
            IF Sign(x) = 0 THEN NaN ELSE IF Sign(x) > 0 THEN y ELSE Neg(y)
      [] y.k = "fin" ->
            IF Sign(y) = 0 THEN NaN ELSE IF Sign(y) > 0 THEN x ELSE Neg(x)
      [] x.k = y.k -> Inf
      [] OTHER -> NInf

\* x / y for a rational or special y (numpy's true division: a zero divisor
\* gives nan or +-inf and a warning, never an exception).
Div(x, y) ==
    CASE x.k = "nan" \/ y.k = "nan" -> NaN
      [] x.k = "fin" /\ y.k = "fin" ->
            IF y.a = RZero
            THEN IF Sign(x) = 0 THEN NaN ELSE IF Sign(x) > 0 THEN Inf ELSE NInf
            ELSE Fin(RDiv(x.a, y.a), RDiv(x.b, y.a), x.f)
      [] x.k = "fin" -> Zero
      [] y.k = "fin" ->
            IF Sign(y) >= 0 THEN x ELSE Neg(x)
      [] OTHER -> NaN

\* x ** e for a rational or special x and an integer e (numpy's power).
Pow(x, e) ==
    CASE e = 0 -> One
      [] x.k = "nan" -> NaN
      [] x.k = "inf" -> IF e > 0 THEN Inf ELSE Zero
      [] x.k = "ninf" ->
            IF e < 0 THEN Zero ELSE IF e % 2 = 0 THEN Inf ELSE NInf
      [] OTHER ->
            IF e > 0 THEN Q(RPowNat(x.a, e))
            ELSE IF x.a = RZero THEN Inf
            ELSE Q(RPowNat(RDiv(ROne, x.a), -e))

\* The square root of a rational v >= 0, as s/v.n * sqrt(f) with
\* v.n * v.d = s*s*f and f squarefree.
SquarePart(m) ==
    LET S == {s \in 1..m : s * s <= m /\ m % (s * s) = 0}
    IN  CHOOSE s \in S : \A t \in S : t <= s

Sqrt(x) ==
    IF x.k # "fin" THEN (IF x.k = "inf" THEN Inf ELSE NaN)
    ELSE IF x.a = RZero THEN Zero
    ELSE LET m == x.a.n * x.a.d
             s == SquarePart(m)
         IN  Fin(RZero, Rat(s, x.a.d), m \div (s * s))

\* x / y for a rational x and y = c*sqrt(f) (a standard deviation).
DivRoot(x, y) ==
    CASE x.k = "nan" \/ y.k = "nan" -> NaN
      [] y.k # "fin" -> IF x.k = "fin" THEN Zero ELSE NaN
      [] x.k # "fin" -> x
      [] y.b = RZero -> Div(x, y)
      [] OTHER ->
            \* x / (c sqrt f) = x sqrt f / (c f)
            Fin(RZero, RDiv(x.a, RMul(y.b, RInt(y.f))), y.f)


\* ------------------------------------------------------ numpy on arrays
\* Arrays are sequences, indexed 1..N (numpy's indices 0..N-1 plus one).
Indices(array) == [i \in 1..Len(array) |-> i]
Range(array) == {array[i] : i \in 1..Len(array)}

RECURSIVE Sum(_, _)
Sum(array, n) == IF n = 0 THEN Zero ELSE Add(Sum(array, n - 1), array[n])

\* array.mean(): the sum over the count; nan (and a warning) when empty.
Mean(array) == Div(Sum(array, Len(array)), I(Len(array)))

\* array.min(), array.max() of an array of rationals.
Min(array) ==
    CHOOSE x \in Range(array) : \A y \in Range(array) : ~RLess(y.a, x.a)
Max(array) ==
    CHOOSE x \in Range(array) : \A y \in Range(array) : ~RLess(x.a, y.a)

\* array.std(): sqrt(mean(abs(array - array.mean()) ** 2)).
Std(array) ==
    LET m == Mean(array)
        sq == [i \in 1..Len(array) |-> Pow(Sub(array[i], m), 2)]
    IN  Sqrt(Mean(sq))

\* array[ix] for an index array ix.
Take(array, ix) == [j \in 1..Len(ix) |-> array[ix[j]]]

\* A variant of Where that keeps the first match only.
WhereFirst(array, u) ==
    LET all == SelectSeq(Indices(array), LAMBDA i : array[i] = u)
    IN  IF Len(all) = 0 THEN all ELSE <<all[1]>>

\* np.where(array == u)[0]: the indices of u, ascending.
Where(array, u) == SelectSeq(Indices(array), LAMBDA i : array[i] = u)

\* np.unique(array): the distinct values, ascending.
RECURSIVE Ascending(_)
Ascending(S) ==
    IF S = {} THEN <<>>
    ELSE LET m == CHOOSE x \in S : \A y \in S : x <= y
         IN  <<m>> \o Ascending(S \ {m})

unique(array) == Ascending(Range(array))

\* np.diff(array).
diff(array) ==
    IF Len(array) = 0 THEN <<>>
    ELSE [i \in 1..(Len(array) - 1) |-> array[i + 1] - array[i]]

\* float -> int (astype): truncation toward zero.
astype_int(x) ==
    IF x.a.n >= 0 THEN x.a.n \div x.a.d ELSE -((-x.a.n) \div x.a.d)

\* ------------------------------------------------- dict (configuration)
EmptyDict == [x \in {} |-> 0]

\* A variant of AfterGet: the mapping after d.setdefault(key, default).
AfterSetdefault(d, key, default) ==
    [x \in (DOMAIN d) \cup {key} |-> IF x \in DOMAIN d THEN d[x] ELSE default]

\* d.get(key, default)
Get(d, key, default) == IF key \in DOMAIN d THEN d[key] ELSE default

\* The mapping d after d.get(key, default): get never stores the default.
AfterGet(d, key, default) == d

\* ---------------------------------------------------- the source's code
standardize(array) ==
    LET m == Mean(array)
        s == Std(array)
    IN  [i \in 1..Len(array) |-> DivRoot(Sub(array[i], m), s)]

minmax_normalize(array) ==
    LET lo == Min(array)
        hi == Max(array)
    IN  [i \in 1..Len(array) |-> Div(Sub(array[i], lo), Sub(hi, lo))]

\* A variant of VelTrend that divides by the mean before exaggerating.
VelTrendRenormFirst(column, post_process_config) ==
    LET normalized == minmax_normalize(column)
        mean == Mean(normalized)
        vel_trend == [i \in 1..Len(column) |-> Div(normalized[i], mean)]
    IN  IF "vel_trend" \in DOMAIN post_process_config
        THEN LET exag_exp == Get(post_process_config["vel_trend"], "exag_exp", 1)
             IN  [i \in 1..Len(column) |-> Pow(vel_trend[i], exag_exp)]
        ELSE vel_trend

\* Lines 57-63: the velocity trend.
VelTrend(column, post_process_config) ==
    LET normalized == minmax_normalize(column)
        vel_trend ==
            IF "vel_trend" \in DOMAIN post_process_config
            THEN LET exag_exp == Get(post_process_config["vel_trend"], "exag_exp", 1)
                 IN  [i \in 1..Len(column) |-> Pow(normalized[i], exag_exp)]
            ELSE normalized
        mean == Mean(vel_trend)
    IN  [i \in 1..Len(column) |-> Div(vel_trend[i], mean)]

\* A variant of Rescaled with the two defaults exchanged.
RescaledDefaultsSwapped(column, post_process_config, field) ==
    LET standardized == standardize(column)
    IN  IF field \in DOMAIN post_process_config
        THEN LET std == Get(post_process_config[field], "std", 0)
                 mean == Get(post_process_config[field], "mean", 1)
             IN  [i \in 1..Len(column) |->
                      Add(Mul(standardized[i], I(std)), I(mean))]
        ELSE standardized

\* Lines 66-71, 74-79, 82-87, 90-95: standardize, then rescale and recenter
\* when the configuration names the field.
Rescaled(column, post_process_config, field) ==
    LET standardized == standardize(column)
    IN  IF field \in DOMAIN post_process_config
        THEN LET std == Get(post_process_config[field], "std", 1)
                 mean == Get(post_process_config[field], "mean", 0)
             IN  [i \in 1..Len(column) |->
                      Add(Mul(standardized[i], I(std)), I(mean))]
        ELSE standardized

Column(bm_data, name) == [i \in 1..Len(bm_data) |-> I(bm_data[i][name])]

\* The transform of lines 56-95 and the constants of lines 99-104.
Transformed(bm_data, post_process_config) ==
    [vel_trend |-> VelTrend(Column(bm_data, "vel_trend"), post_process_config),
     vel_dev |-> Rescaled(Column(bm_data, "vel_dev"), post_process_config, "vel_dev"),
     log_bpr |-> Rescaled(Column(bm_data, "log_bpr"), post_process_config, "log_bpr"),
     timing |-> Rescaled(Column(bm_data, "timing"), post_process_config, "timing"),
     log_art |-> Rescaled(Column(bm_data, "log_art"), post_process_config, "log_art")]

Deadpan(bm_data) ==
    LET n_notes == Len(bm_data)
        ones == [i \in 1..n_notes |-> One]
        zeros == [i \in 1..n_notes |-> Zero]
    IN  [vel_trend |-> ones, vel_dev |-> zeros, log_bpr |-> zeros,
         timing |-> zeros, log_art |-> zeros]

\* A variant of Expressive with the test of line 53 inverted.
ExpressiveInverted(bm_data, deadpan, post_process_config) ==
    IF deadpan THEN Transformed(bm_data, post_process_config)
    ELSE Deadpan(bm_data)

\* Lines 53-104: the five expressive arrays.
Expressive(bm_data, deadpan, post_process_config) ==
    IF ~deadpan THEN Transformed(bm_data, post_process_config)
    ELSE Deadpan(bm_data)

\* A variant of ShiftOnsets that leaves the onsets as they are.
NoShift(onsets) == onsets

\* Line 51: onsets -= onsets.min().
ShiftOnsets(onsets) ==
    LET lo == CHOOSE x \in Range(onsets) : \A y \in Range(onsets) : x <= y
    IN  [i \in 1..Len(onsets) |-> onsets[i] - lo]

\* Line 155: the indices of each unique score position.
unique_onset_idxs(onsets) ==
    LET unique_onsets == unique(onsets)
    IN  [k \in 1..Len(unique_onsets) |-> Where(onsets, unique_onsets[k])]

\* A variant of iois: np.r_[np.diff(unique_onsets), 0].
IoisTrailingZero(unique_onsets) == diff(unique_onsets) \o <<0>>

\* Line 158: np.r_[0, np.diff(unique_onsets)].
iois(unique_onsets) == <<0>> \o diff(unique_onsets)

\* A variant of Entry that slices melody[:len(ix)] instead of melody[ix].
EntryMelodyPrefix(ix, ioi, pitches, durations, melody, e) ==
    [pitches |-> Take(pitches, ix),
     ioi |-> ioi,
     durations |-> Take(durations, ix),
     vel_trend |-> Mean(Take(e.vel_trend, ix)),
     vel_dev |-> Take(e.vel_dev, ix),
     log_bpr |-> Mean(Take(e.log_bpr, ix)),
     timing |-> Take(e.timing, ix),
     log_art |-> Take(e.log_art, ix),
     melody |-> Take(melody, Indices(ix))]

\* A variant of Entry with np.sum in place of np.mean.
EntrySum(ix, ioi, pitches, durations, melody, e) ==
    [pitches |-> Take(pitches, ix),
     ioi |-> ioi,
     durations |-> Take(durations, ix),
     vel_trend |-> Sum(Take(e.vel_trend, ix), Len(ix)),
     vel_dev |-> Take(e.vel_dev, ix),
     log_bpr |-> Sum(Take(e.log_bpr, ix), Len(ix)),
     timing |-> Take(e.timing, ix),
     log_art |-> Take(e.log_art, ix),
     melody |-> Take(melody, ix)]

\* Lines 166-174: the tuple stored for one score position.
Entry(ix, ioi, pitches, durations, melody, e) ==
    [pitches |-> Take(pitches, ix),
     ioi |-> ioi,
     durations |-> Take(durations, ix),
     vel_trend |-> Mean(Take(e.vel_trend, ix)),
     vel_dev |-> Take(e.vel_dev, ix),
     log_bpr |-> Mean(Take(e.log_bpr, ix)),
     timing |-> Take(e.timing, ix),
     log_art |-> Take(e.log_art, ix),
     melody |-> Take(melody, ix)]

\* score_dict[key] = value
SetItem(d, key, value) ==
    [t \in (DOMAIN d) \cup {key} |-> IF t = key THEN value ELSE d[t]]

\* Lines 161-174: the loop assigns score_dict[on] for each (on, ioi, ix)
\* of the zip, in order.
RECURSIVE ScoreLoop(_, _, _, _, _, _, _, _)
ScoreLoop(k, unique_onsets, ioi, idxs, pitches, durations, melody, e) ==
    IF k = 0 THEN EmptyDict
    ELSE SetItem(ScoreLoop(k - 1, unique_onsets, ioi, idxs,
                           pitches, durations, melody, e),
                 unique_onsets[k],
                 Entry(idxs[k], ioi[k], pitches, durations, melody, e))

MinLen(a, b, c) ==
    LET S == {Len(a), Len(b), Len(c)} IN CHOOSE x \in S : \A y \in S : x <= y

\* Lines 151-175: _build_score_dict.
build_score_dict(pitches, onsets, durations, melody, e) ==
    LET unique_onsets == unique(onsets)
        idxs == unique_onset_idxs(onsets)
        ioi == iois(unique_onsets)
    IN  ScoreLoop(MinLen(unique_onsets, ioi, idxs), unique_onsets, ioi, idxs,
                  pitches, durations, melody, e)

\* Line 43: np.loadtxt(filename).  A file of two or more rows loads as a
\* 2-D array; one-dimensional axes are squeezed (ndmin = 0), so a file of
\* one row loads as a 1-D array of its 9 values and an empty file as an
\* empty 1-D array.
loadtxt(file) == [ndim |-> IF Len(file) >= 2 THEN 2 ELSE 1, rows |-> file]

\* Lines 43-108: load_bm_preds.  bm_data[:, 0] (line 45) raises IndexError
\* on a 1-D array.  locals: the arrays handed to _build_score_dict (line 106).
NoLocals ==
    [pitches |-> <<>>, onsets |-> <<>>, durations |-> <<>>, melody |-> <<>>,
     vel_trend |-> <<>>, vel_dev |-> <<>>, log_bpr |-> <<>>, timing |-> <<>>,
     log_art |-> <<>>]

Locals(rows, deadpan, post_process_config) ==
    [pitches |-> [i \in 1..Len(rows) |-> astype_int(rows[i].pitch)],
     onsets |-> ShiftOnsets([i \in 1..Len(rows) |-> rows[i].onset]),
     durations |-> [i \in 1..Len(rows) |-> rows[i].duration],
     melody |-> [i \in 1..Len(rows) |-> rows[i].melody]]
    @@ Expressive(rows, deadpan, post_process_config)

load_bm_preds(file, deadpan, post_process_config) ==
    IF loadtxt(file).ndim # 2
    THEN [outcome |-> "IndexError", value |-> EmptyDict, locals |-> NoLocals]
    ELSE CHOOSE r \in
           {[outcome |-> "returned",
             value |-> build_score_dict(l.pitches, l.onsets, l.durations, l.melody, l),
             locals |-> l]
              : l \in {Locals(loadtxt(file).rows, deadpan, post_process_config)}} : TRUE

\* What a call leaves in the mapping bound to post_process_config: each
\* field that is present has its options read with get (lines 59-95).
ConfigAfterCall(deadpan, cfg) ==
    IF deadpan THEN cfg
    ELSE [f \in DOMAIN cfg |->
            IF f = "vel_trend" THEN AfterGet(cfg[f], "exag_exp", 1)
            ELSE IF f \in {"vel_dev", "log_bpr", "timing", "log_art"}
            THEN AfterGet(AfterGet(cfg[f], "std", 1), "mean", 0)
            ELSE cfg[f]]


\* ------------------------------------------------------------ the inputs
MinOnset == 0 - 1
Fields == {"vel_trend", "vel_dev", "log_bpr", "timing", "log_art"}
StdFields == {"vel_dev", "log_bpr", "timing", "log_art"}

\* The score columns of row i: pitches with fractions (the file holds
\* floats), durations, melody flags.
ScoreColumns(i) ==
    [pitch |-> Q(Rat(119 + 3 * i, 2)), duration |-> i,
     melody |-> IF i % 3 = 1 THEN 1 ELSE 0]

\* Row i of the base file: vel_trend and log_bpr follow the onset, the
\* other expressive columns follow the row.
BaseRow(i, onset) ==
    [pitch |-> ScoreColumns(i).pitch, onset |-> onset,
     duration |-> ScoreColumns(i).duration, melody |-> ScoreColumns(i).melody,
     vel_trend |-> onset - MinOnset,
     vel_dev |-> i % (MaxRaw + 1),
     log_bpr |-> 2 * (MaxOnset - onset),
     timing |-> (i * i) % (MaxRaw + 1),
     log_art |-> (i + 1) % (MaxRaw + 1)]

\* Files that differ in their onsets (any order, any repetition); vel_trend
\* and log_bpr are functions of the onset, as the upstream predictor has them.
OnsetFiles ==
    UNION {{[i \in 1..n |-> BaseRow(i, on[i])] : on \in [1..n -> MinOnset..MaxOnset]}
           : n \in 0..MaxNotes}

\* Files that differ in one expressive column (any values, constant ones
\* included); onsets 2, 2, 3, ... as in the end-to-end scenario.
ScenarioOnset(i) == IF i <= 2 THEN 2 ELSE i
ColumnFiles ==
    UNION {{[i \in 1..n |-> [BaseRow(i, ScenarioOnset(i)) EXCEPT ![c] = v[i]]]
              : c \in Fields, v \in [1..n -> 0..MaxRaw]}
           : n \in 1..MaxNotes}

\* Option mappings: the recognized options present or absent, with and
\* without an option the field does not read.
Exponents == {0 - 1, 0, 2}
Stds == {0 - 1, 0, 2}
Means == {1}
Restrict(d, S) == [x \in S |-> d[x]]
VelTrendOptions ==
    {Restrict([exag_exp |-> x, std |-> 5], S)
       : x \in Exponents, S \in SUBSET {"exag_exp", "std"}}
StdOptions ==
    {Restrict([std |-> s, mean |-> m, exag_exp |-> 5], S)
       : s \in Stds, m \in Means, S \in SUBSET {"std", "mean", "exag_exp"}}
OptionsOf(f) == IF f = "vel_trend" THEN VelTrendOptions ELSE StdOptions

\* Configurations that name one field, with and without an unrecognized
\* field; the empty one; and one that names every field.
OneFieldConfigs ==
    UNION {UNION {{[x \in {f} |-> o], [x \in {f, "tempo"} |-> o]}
                    : o \in OptionsOf(f)} : f \in Fields}
FullConfig ==
    [f \in Fields |->
        IF f = "vel_trend" THEN [exag_exp |-> 2] ELSE [std |-> 2, mean |-> 1]]
DefaultsConfig == [f \in Fields |-> EmptyDict]
AllConfigs == {EmptyDict, FullConfig, DefaultsConfig} \cup OneFieldConfigs

\* The base file, and the base file with a constant vel_trend or log_bpr.
ConfigFiles ==
    {[i \in 1..MaxNotes |-> BaseRow(i, ScenarioOnset(i))],
     [i \in 1..MaxNotes |-> [BaseRow(i, ScenarioOnset(i)) EXCEPT !.vel_trend = 1]],
     [i \in 1..MaxNotes |-> [BaseRow(i, ScenarioOnset(i)) EXCEPT !.log_bpr = 1]]}

\* Every file is also called with the empty default configuration.
Inputs ==
    ((OnsetFiles \cup ColumnFiles) \X {FullConfig})
    \cup (ConfigFiles \X AllConfigs)

\* ------------------------------------------------------------- the state
VARIABLES
    file,            \* the rows of the predictions file
    caller_config,   \* a mapping the caller holds and may pass
    default_config,  \* the mapping of the default argument, made once
    deadpan,         \* the last call's deadpan
    passed,          \* whether the last call passed caller_config
    outcome,         \* "none", or how the last call ended
    locals,          \* the last call's arrays when it reached line 106
    score_dict       \* the last value returned

vars == <<file, caller_config, default_config, deadpan, passed, outcome,
          locals, score_dict>>

Init ==
    /\ \E input \in Inputs : file = input[1] /\ caller_config = input[2]
    /\ default_config = EmptyDict
    /\ deadpan = FALSE
    /\ passed = FALSE
    /\ outcome = "none"
    /\ locals = NoLocals
    /\ score_dict = EmptyDict

\* A call load_bm_preds(filename, deadpan = d, post_process_config = cfg).
Call(d, cfg) ==
    /\ \E r \in {load_bm_preds(file, d, cfg)} :
        /\ deadpan' = d
        /\ outcome' = r.outcome
        /\ locals' = r.locals
        /\ score_dict' = IF r.outcome = "returned" THEN r.value ELSE score_dict
        /\ UNCHANGED file

\* load_bm_preds(filename, deadpan = d): the default mapping is bound.
CallDefault ==
    \E d \in BOOLEAN :
        /\ Call(d, default_config)
        /\ passed' = FALSE
        /\ default_config' =
             IF loadtxt(file).ndim = 2
             THEN ConfigAfterCall(d, default_config) ELSE default_config
        /\ UNCHANGED caller_config

\* load_bm_preds(filename, deadpan = d, post_process_config = caller_config).
CallWithConfig ==
    \E d \in BOOLEAN :
        /\ Call(d, caller_config)
        /\ passed' = TRUE
        /\ caller_config' =
             IF loadtxt(file).ndim = 2
             THEN ConfigAfterCall(d, caller_config) ELSE caller_config
        /\ UNCHANGED default_config

Next == CallDefault \/ CallWithConfig

Spec == Init /\ [][Next]_vars


\* ---------------------------------------------------------- the claims
\* What the claims speak of, computed from the file and not from the code.
N == Len(file)
Returned == outcome = "returned"
Keys == DOMAIN score_dict
\* The mapping the last call had as its post_process_config.
Config == IF passed THEN caller_config ELSE default_config
RawOnsets == [i \in 1..N |-> file[i].onset]
MinRawOnset == CHOOSE x \in Range(RawOnsets) : \A y \in Range(RawOnsets) : x <= y
ShiftedOnset(i) == file[i].onset - MinRawOnset
NotesAt(t) == {i \in 1..N : ShiftedOnset(i) = t}
KthOf(S, k) == CHOOSE i \in S : Cardinality({j \in S : j < i}) = k - 1
InOrder(S) == [k \in 1..Cardinality(S) |-> KthOf(S, k)]
Constant(c) == \A i, j \in 1..N : file[i][c] = file[j][c]
GroupConstant(c) ==
    \A i, j \in 1..N : file[i].onset = file[j].onset => file[i][c] = file[j][c]
Unsorted == \E i, j \in 1..N : i < j /\ file[i].onset > file[j].onset

RECURSIVE TotalPitches(_)
TotalPitches(S) ==
    IF S = {} THEN 0
    ELSE LET t == CHOOSE x \in S : TRUE
         IN  Len(score_dict[t].pitches) + TotalPitches(S \ {t})

\* The places <<k, j>> of the index groups that hold the index i.
PlacesOf(idxs, i) ==
    {p \in UNION {{<<k, j>> : j \in 1..Len(idxs[k])} : k \in 1..Len(idxs)} :
        idxs[p[1]][p[2]] = i}

GroupsPartition(onsets) ==
    \E idxs \in {unique_onset_idxs(onsets)} :
        /\ \A i \in 1..Len(onsets) : Cardinality(PlacesOf(idxs, i)) = 1
        /\ \A k \in 1..Len(idxs) : \A j \in 1..Len(idxs[k]) :
              idxs[k][j] \in 1..Len(onsets)
        /\ \A k \in 1..Len(idxs) : Len(idxs[k]) >= 1

\* C1: the index groups of _build_score_dict partition the indices of the
\* notes (of the onsets as read and as shifted): every index is in exactly
\* one group, once; and the pitch sequences of a returned score_dict have
\* N elements in all.
C1_GroupingCompleteness ==
    /\ GroupsPartition(RawOnsets)
    /\ Returned =>
          /\ GroupsPartition(locals.onsets)
          /\ Cardinality(Keys) = Len(unique_onset_idxs(locals.onsets))
          /\ TotalPitches(Keys) = N

C1_Witness ==
    /\ Returned /\ N = MaxNotes /\ Unsorted
    /\ \E t \in Keys : Len(score_dict[t].pitches) >= 2
    /\ Cardinality(Keys) >= 2

\* C2: the ioi at the smallest key is 0; the ioi at any other key is the
\* gap to the largest smaller key, and is positive.
C2_IoiCorrectness ==
    Returned =>
        \A t \in Keys :
            LET below == {u \in Keys : u < t}
            IN  IF below = {} THEN score_dict[t].ioi = 0
                ELSE /\ \E u \in below :
                          /\ \A v \in below : v <= u
                          /\ score_dict[t].ioi = t - u
                     /\ score_dict[t].ioi > 0

C2_Witness ==
    /\ Returned /\ Unsorted /\ Cardinality(Keys) >= 3
    /\ \E t \in Keys : score_dict[t].ioi >= 2

\* C3: in either mode the keys of a returned score_dict are the distinct
\* values onset - (least onset of the file); 0 is a key and none is negative.
C3_OnsetZeroShift ==
    Returned =>
        /\ Keys = {ShiftedOnset(i) : i \in 1..N}
        /\ 0 \in Keys
        /\ \A t \in Keys : t >= 0

C3_Witness ==
    /\ Returned /\ deadpan /\ MinRawOnset > 0
    /\ Cardinality(Keys) < N /\ Cardinality(Keys) >= 2

\* C4: a deadpan call has vel_trend 1 and vel_dev, log_bpr, timing, log_art
\* 0 for every note, whatever the file's expressive columns and whatever the
\* configuration; every entry has vel_trend 1, log_bpr 0 and zeros of the
\* group's length.
AllEqual(array, n, x) == array = [i \in 1..n |-> x]

C4_DeadpanOutput ==
    (Returned /\ deadpan) =>
        /\ AllEqual(locals.vel_trend, N, One)
        /\ \A c \in StdFields : AllEqual(locals[c], N, Zero)
        /\ \A t \in Keys :
              /\ score_dict[t].vel_trend = One
              /\ score_dict[t].log_bpr = Zero
              /\ \A c \in {"vel_dev", "timing", "log_art"} :
                    AllEqual(score_dict[t][c], Cardinality(NotesAt(t)), Zero)

C4_Witness ==
    /\ Returned /\ deadpan /\ passed /\ caller_config = FullConfig
    /\ Constant("timing") /\ ~Constant("vel_trend") /\ ~Constant("log_bpr")

\* The exag_exp a call applies; 1 when the field or the option is absent.
ExagExp ==
    IF "vel_trend" \in DOMAIN Config /\ "exag_exp" \in DOMAIN Config["vel_trend"]
    THEN Config["vel_trend"]["exag_exp"] ELSE 1

\* C5 as stated: without deadpan, for a vel_trend column that is not
\* constant and for any exag_exp, the per-note vel_trend has mean 1.
C5_MeanLawAnyExponent ==
    (Returned /\ ~deadpan /\ ~Constant("vel_trend")) =>
        Mean(locals.vel_trend) = One

\* C5 as amended: the same for any exag_exp >= 0 (and when none is given).
C5_MeanLaw ==
    (Returned /\ ~deadpan /\ ~Constant("vel_trend") /\ ExagExp >= 0) =>
        Mean(locals.vel_trend) = One

C5_Witness ==
    /\ Returned /\ ~deadpan /\ ~Constant("vel_trend") /\ ExagExp = 2
    /\ Cardinality({file[i].vel_trend : i \in 1..N}) = 3
    /\ \E i \in 1..N : locals.vel_trend[i] \notin {Zero, One}

\* The configuration without what the code does not read: options a field
\* does not know, fields it does not know, and fields left with no option.
Recognized(f) == IF f = "vel_trend" THEN {"exag_exp"} ELSE {"std", "mean"}
Strip(cfg) ==
    [f \in {g \in (DOMAIN cfg) \cap Fields : (DOMAIN cfg[g]) \cap Recognized(g) # {}}
        |-> Restrict(cfg[f], (DOMAIN cfg[f]) \cap Recognized(f))]

\* C6: without deadpan a call ends as the call with the stripped
\* configuration does: the same outcome (no error of its own) and the same
\* score_dict.
C6_ConfigDefaults ==
    (outcome # "none" /\ ~deadpan) =>
        \E r \in {load_bm_preds(file, FALSE, Strip(Config))} :
            /\ r.outcome = outcome
            /\ Returned => r.value = score_dict

C6_Witness ==
    /\ Returned /\ ~deadpan /\ passed
    /\ "tempo" \in DOMAIN caller_config
    /\ \E f \in StdFields \cap DOMAIN caller_config :
          DOMAIN caller_config[f] = {"exag_exp"}
    /\ Strip(caller_config) = EmptyDict

\* The file with column c replaced by values that are not constant.
WithColumn(c) == [i \in 1..N |-> [file[i] EXCEPT ![c] = i % 2]]

\* C7 as stated: without deadpan, when an expressive column is constant the
\* call raises no error and returns a score_dict with the keys, pitches,
\* durations, melody and ioi it has for the file with that column not
\* constant; the values of that field are not finite and the other fields
\* are as for that file.
C7_DegenerateSilent ==
    \A c \in Fields :
        (outcome # "none" /\ ~deadpan /\ N >= 1 /\ Constant(c)) =>
            /\ Returned
            /\ \A i \in 1..N : ~IsFinite(locals[c][i])
            /\ \A t \in Keys :
                  IF c \in {"vel_trend", "log_bpr"}
                  THEN ~IsFinite(score_dict[t][c])
                  ELSE \A k \in 1..Len(score_dict[t][c]) :
                           ~IsFinite(score_dict[t][c][k])
            /\ \E r \in {load_bm_preds(WithColumn(c), FALSE, Config)} :
                  /\ DOMAIN r.value = Keys
                  /\ \A t \in Keys : \A x \in {"pitches", "durations", "melody", "ioi"} :
                        r.value[t][x] = score_dict[t][x]
                  /\ \A x \in Fields \ {c} : r.locals[x] = locals[x]

\* C8: at every key the six sequences have the length of the group, and
\* their k-th elements are those of the k-th note, in file order, among the
\* notes whose shifted onset is the key.
C8_Alignment ==
    Returned =>
        \A t \in Keys :
            \E ix \in {InOrder(NotesAt(t))} :
                /\ Len(ix) >= 1
                /\ \A x \in {"pitches", "durations", "vel_dev", "timing",
                             "log_art", "melody"} : Len(score_dict[t][x]) = Len(ix)
                /\ \A k \in 1..Len(ix) :
                      /\ score_dict[t].pitches[k] = astype_int(file[ix[k]].pitch)
                      /\ score_dict[t].durations[k] = file[ix[k]].duration
                      /\ score_dict[t].melody[k] = file[ix[k]].melody
                      /\ \A x \in {"vel_dev", "timing", "log_art"} :
                            score_dict[t][x][k] = locals[x][ix[k]]

C8_Witness ==
    /\ Returned /\ ~deadpan /\ Unsorted
    /\ \E t \in Keys :
          /\ NotesAt(t) = {1, 3}
          /\ \A x \in {"pitches", "durations", "vel_dev", "timing",
                       "log_art", "melody"} :
                score_dict[t][x][1] # score_dict[t][x][2]

\* C9: at every key vel_trend and log_bpr are single values, the mean of
\* the per-note values over the notes at the key; when the notes of each
\* onset have one raw value, their transformed values are one value too,
\* and it is the stored one.
C9_PositionScalars ==
    Returned =>
        \A t \in Keys : \A c \in {"vel_trend", "log_bpr"} :
            \E ix \in {InOrder(NotesAt(t))} :
                /\ score_dict[t][c] = Mean([k \in 1..Len(ix) |-> locals[c][ix[k]]])
                /\ GroupConstant(c) =>
                      \A k \in 1..Len(ix) : locals[c][ix[k]] = score_dict[t][c]

C9_Witness ==
    /\ Returned /\ ~deadpan
    /\ GroupConstant("vel_trend") /\ GroupConstant("log_bpr")
    /\ \E t \in Keys :
          /\ Cardinality(NotesAt(t)) >= 2
          /\ IsFinite(score_dict[t].vel_trend) /\ score_dict[t].vel_trend # Zero
          /\ IsFinite(score_dict[t].log_bpr) /\ score_dict[t].log_bpr # Zero

\* C10: a call changes no mapping: the default one stays empty and the
\* caller's stays as it was; and what a call returns is what the file, its
\* deadpan and its configuration give with an empty default, whatever was
\* called before.
C10_NoCarriedState ==
    [][/\ default_config' = EmptyDict
       /\ caller_config' = caller_config
       /\ outcome' = "returned" =>
             score_dict' = load_bm_preds(file, deadpan',
                               IF passed' THEN caller_config ELSE EmptyDict).value
      ]_vars

C10_Witness ==
    /\ Returned /\ ~passed /\ ~deadpan
    /\ default_config = EmptyDict
    /\ \E f \in DOMAIN caller_config : DOMAIN caller_config[f] = {}

====
